---- MODULE Spec2Model ----
(***************************************************************************)
(* The external scanner of the morpheus tree-sitter grammar                *)
(* (grammar/src/scanner.c): the five operations create, destroy,           *)
(* serialize, deserialize and scan, run against a lexer cursor owned by    *)
(* the parsing engine.  scan is modelled statement by statement; one       *)
(* action per branch point of the C function.                              *)
(***************************************************************************)
EXTENDS Integers, Sequences, FiniteSets, TLC

\* ------------------------------------------------------------ bounds
\* Longest input text the engine hands to the scanner.
MaxLen == 4

\* ------------------------------------------------------------ code points
NEWLINE == 10
CR == 13
SPACE == 32
BACKSLASH == 92
LETTER_X == 120
\* lexer->lookahead at end of input
EOF_CHAR == 0

\* enum TokenType { LINE_CONTINUATION }
LINE_CONTINUATION == 0
\* some other symbol of the grammar, left in result_symbol by the engine
OTHER_SYMBOL == 1

\* create() returns NULL
NULL == 0

\* serialize has not returned yet in this session
NO_LENGTH == -1

\* The code points inputs are drawn from: two non-newline whitespace
\* characters, the newline, the backslash and one ordinary character.
Alphabet == {SPACE, CR, NEWLINE, BACKSLASH, LETTER_X}

\* All input texts of at most MaxLen code points.
Inputs == UNION {[1..n -> Alphabet] : n \in 0..MaxLen}

\* The engine's serialization buffer as handed to serialize (its content is
\* the engine's, the scanner must not touch it).
EngineBuffer == <<170, 85>>

\* Variant of iswspace: the end-of-input code point counts as whitespace.
iswspaceOrNul(c) == c \in {0, 9, 10, 11, 12, 13, 32}

\* Variant of iswspace: blanks only, the carriage return is not whitespace.
iswspaceNoCr(c) == c \in {9, 10, 32}

\* iswspace() in the C locale: HT, LF, VT, FF, CR and space.
iswspace(c) == c \in {9, 10, 11, 12, 13, 32}

VARIABLES
  input,          \* the text being lexed
  pos,            \* lexer cursor: number of code points already advanced past
  token_start,    \* lexer: where the token under construction starts
  result_symbol,  \* lexer->result_symbol
  valid_symbols,  \* the valid_symbols table of the current call
  pc,             \* position inside scan, "idle" between calls
  ret,            \* return value of the last finished scan call
  entry_pos,      \* cursor at entry of the current / last scan call
  entry_symbol,   \* result_symbol at entry of the current / last scan call
  advances,       \* the lexer->advance calls of this call: <<code point, skip>>
  reads,          \* number of reads of lexer->lookahead in this call
  payload,        \* the handle create returned
  buffer,         \* the engine's serialization buffer
  ser_len,        \* the last return value of serialize
  last_op,        \* the external-scanner operation called last
  snap,           \* an earlier finished scan call kept for comparison
  restored        \* serialize then deserialize ran since snap was taken

lexer == <<pos, token_start, result_symbol>>
call == <<valid_symbols, pc, ret, entry_pos, entry_symbol, advances, reads>>
scanner == <<payload, buffer, ser_len>>
vars == <<input, pos, token_start, result_symbol, valid_symbols, pc, ret,
          entry_pos, entry_symbol, advances, reads, payload, buffer, ser_len,
          last_op, snap, restored>>

\* A scanner has been created and not destroyed.
alive == last_op # "destroy"

\* lexer->lookahead: the code point at the cursor, 0 at end of input.
lookahead == IF pos < Len(input) THEN input[pos + 1] ELSE EOF_CHAR

\* All reads of the lookahead a call can make fit under this cap.
ReadCap == 2 * MaxLen + 4

Min(a, b) == IF a < b THEN a ELSE b

\* n more reads of lexer->lookahead
Read(n) == reads' = Min(reads + n, ReadCap)

\* lexer->advance(lexer, skip): move one code point forward (nothing to move
\* over at end of input); a skipped code point is outside the token.
Advance(skip) ==
  /\ pos' = IF pos < Len(input) THEN pos + 1 ELSE pos
  /\ token_start' = IF skip THEN pos' ELSE token_start
  /\ advances' = Append(advances, <<lookahead, skip>>)

\* return b;
Return(b) ==
  /\ ret' = b
  /\ pc' = "done"

Init ==
  /\ input \in Inputs
  /\ pos = 0
  /\ token_start = 0
  /\ result_symbol \in {LINE_CONTINUATION, OTHER_SYMBOL}
  /\ valid_symbols = [s \in {LINE_CONTINUATION} |-> FALSE]
  /\ pc = "idle"
  /\ ret = FALSE
  /\ entry_pos = 0
  /\ entry_symbol = result_symbol
  /\ advances = <<>>
  /\ reads = 0
  /\ payload = NULL
  /\ buffer = EngineBuffer
  /\ ser_len = NO_LENGTH
  /\ last_op = "create"
  /\ snap = <<>>
  /\ restored = FALSE

\* ------------------------------------------------------------ lifecycle

\* void *tree_sitter_morpheus_external_scanner_create() { return NULL; }
\* The engine creates the scanner of a new parse of the text.
Create ==
  /\ ~alive
  /\ payload' = NULL
  /\ last_op' = "create"
  /\ pc' = "idle"
  /\ UNCHANGED <<input, lexer, valid_symbols, ret, entry_pos, entry_symbol,
                 advances, reads, buffer, ser_len, snap, restored>>

\* void tree_sitter_morpheus_external_scanner_destroy(void *payload) {}
Destroy ==
  /\ alive
  /\ pc \in {"idle", "done"}
  /\ last_op' = "destroy"
  /\ UNCHANGED <<input, lexer, call, scanner, snap, restored>>

\* Variant of Serialize: one byte of state is written and reported.
SerializeWritesByte ==
  /\ alive
  /\ pc \in {"idle", "done"}
  /\ ser_len' = 1
  /\ buffer' = [buffer EXCEPT ![1] = 0]
  /\ last_op' = "serialize"
  /\ UNCHANGED <<input, lexer, call, payload, snap, restored>>

\* unsigned ..._serialize(void *payload, char *buffer) { return 0; }
Serialize ==
  /\ alive
  /\ pc \in {"idle", "done"}
  /\ ser_len' = 0
  /\ buffer' = buffer
  /\ last_op' = "serialize"
  /\ UNCHANGED <<input, lexer, call, payload, snap, restored>>

\* void ..._deserialize(void *payload, const char *buffer, unsigned length) {}
Deserialize ==
  /\ alive
  /\ pc \in {"idle", "done"}
  /\ last_op' = "deserialize"
  /\ restored' = (restored \/ (snap # <<>> /\ last_op = "serialize"))
  /\ UNCHANGED <<input, lexer, call, scanner, snap>>

\* ------------------------------------------------------------ scan

\* The engine calls scan: with the cursor where the last call left it or
\* moved to another position of the text, with some valid_symbols table,
\* and with whatever its own lexing left in result_symbol.
Call ==
  /\ alive
  /\ pc \in {"idle", "done"}
  /\ \E p \in 0..Len(input), v \in BOOLEAN, s \in {LINE_CONTINUATION, OTHER_SYMBOL} :
       /\ pos' = p
       /\ token_start' = p
       /\ entry_pos' = p
       /\ valid_symbols' = [t \in {LINE_CONTINUATION} |-> v]
       /\ result_symbol' = s
       /\ entry_symbol' = s
  /\ pc' = "check_valid"
  /\ advances' = <<>>
  /\ reads' = 0
  /\ last_op' = "scan"
  /\ UNCHANGED <<input, ret, scanner, snap, restored>>

\* Variant of CheckValid: the valid_symbols table is not consulted.
CheckValidAlways ==
  /\ pc = "check_valid"
  /\ pc' = "skip_ws"
  /\ UNCHANGED <<input, lexer, valid_symbols, ret, entry_pos, entry_symbol,
                 advances, reads, scanner, last_op, snap, restored>>

\* if (valid_symbols[LINE_CONTINUATION]) { ... } return false;
CheckValid ==
  /\ pc = "check_valid"
  /\ IF valid_symbols[LINE_CONTINUATION]
       THEN /\ pc' = "skip_ws"
            /\ UNCHANGED ret
       ELSE Return(FALSE)
  /\ UNCHANGED <<input, lexer, valid_symbols, entry_pos, entry_symbol,
                 advances, reads, scanner, last_op, snap, restored>>

\* Variant of SkipWs: the loop has no break on the newline.
SkipWsNoBreak ==
  /\ pc = "skip_ws"
  /\ Read(1)
  /\ IF iswspace(lookahead)
       THEN /\ Advance(TRUE)
            /\ pc' = "skip_ws"
       ELSE /\ pc' = "expect_backslash"
            /\ UNCHANGED <<pos, token_start, advances>>
  /\ UNCHANGED <<input, result_symbol, valid_symbols, ret, entry_pos,
                 entry_symbol, scanner, last_op, snap, restored>>

\* Variant of SkipWs: the whitespace is advanced with skip = false.
SkipWsSignificant ==
  /\ pc = "skip_ws"
  /\ IF iswspace(lookahead) /\ lookahead # NEWLINE
       THEN /\ Read(2)
            /\ Advance(FALSE)
            /\ pc' = "skip_ws"
       ELSE /\ Read(IF iswspace(lookahead) THEN 2 ELSE 1)
            /\ pc' = "expect_backslash"
            /\ UNCHANGED <<pos, token_start, advances>>
  /\ UNCHANGED <<input, result_symbol, valid_symbols, ret, entry_pos,
                 entry_symbol, scanner, last_op, snap, restored>>

\* Variant of SkipWs: the loop body does not advance.
SkipWsNoAdvance ==
  /\ pc = "skip_ws"
  /\ IF iswspace(lookahead) /\ lookahead # NEWLINE
       THEN /\ Read(2)
            /\ pc' = "skip_ws"
       ELSE /\ Read(IF iswspace(lookahead) THEN 2 ELSE 1)
            /\ pc' = "expect_backslash"
  /\ UNCHANGED <<input, lexer, advances, valid_symbols, ret, entry_pos,
                 entry_symbol, scanner, last_op, snap, restored>>

\* Variant of SkipWs: an if in place of the loop, one code point is skipped.
SkipWsOnce ==
  /\ pc = "skip_ws"
  /\ IF iswspace(lookahead) /\ lookahead # NEWLINE
       THEN /\ Read(2)
            /\ Advance(TRUE)
       ELSE /\ Read(IF iswspace(lookahead) THEN 2 ELSE 1)
            /\ UNCHANGED <<pos, token_start, advances>>
  /\ pc' = "expect_backslash"
  /\ UNCHANGED <<input, result_symbol, valid_symbols, ret, entry_pos,
                 entry_symbol, scanner, last_op, snap, restored>>

\* while (iswspace(lexer->lookahead)) {
\*   if (lexer->lookahead == '\n') break;
\*   lexer->advance(lexer, true);
\* }
SkipWs ==
  /\ pc = "skip_ws"
  /\ IF iswspace(lookahead)
       THEN IF lookahead = NEWLINE
              THEN /\ Read(2)
                   /\ pc' = "expect_backslash"
                   /\ UNCHANGED <<pos, token_start, advances>>
              ELSE /\ Read(2)
                   /\ Advance(TRUE)
                   /\ pc' = "skip_ws"
       ELSE /\ Read(1)
            /\ pc' = "expect_backslash"
            /\ UNCHANGED <<pos, token_start, advances>>
  /\ UNCHANGED <<input, result_symbol, valid_symbols, ret, entry_pos,
                 entry_symbol, scanner, last_op, snap, restored>>

\* Variant of ExpectBackslash: the backslash is tested but not advanced past.
ExpectBackslashNoAdvance ==
  /\ pc = "expect_backslash"
  /\ Read(1)
  /\ IF lookahead = BACKSLASH
       THEN /\ pc' = "expect_cr"
            /\ UNCHANGED ret
       ELSE Return(FALSE)
  /\ UNCHANGED <<input, lexer, advances, valid_symbols, entry_pos,
                 entry_symbol, scanner, last_op, snap, restored>>

\* Variant of ExpectBackslash: result_symbol is set as soon as the backslash
\* is seen.
ExpectBackslashReports ==
  /\ pc = "expect_backslash"
  /\ Read(1)
  /\ IF lookahead = BACKSLASH
       THEN /\ Advance(FALSE)
            /\ result_symbol' = LINE_CONTINUATION
            /\ pc' = "expect_cr"
            /\ UNCHANGED ret
       ELSE /\ Return(FALSE)
            /\ UNCHANGED <<pos, token_start, advances, result_symbol>>
  /\ UNCHANGED <<input, valid_symbols, entry_pos, entry_symbol, scanner,
                 last_op, snap, restored>>

\* if (lexer->lookahead == '\\') { lexer->advance(lexer, false); ... }
\* return false;
ExpectBackslash ==
  /\ pc = "expect_backslash"
  /\ Read(1)
  /\ IF lookahead = BACKSLASH
       THEN /\ Advance(FALSE)
            /\ pc' = "expect_cr"
            /\ UNCHANGED ret
       ELSE /\ Return(FALSE)
            /\ UNCHANGED <<pos, token_start, advances>>
  /\ UNCHANGED <<input, result_symbol, valid_symbols, entry_pos,
                 entry_symbol, scanner, last_op, snap, restored>>

\* Variant of ExpectCr: any code point but the newline is advanced past.
ExpectCrAnything ==
  /\ pc = "expect_cr"
  /\ Read(1)
  /\ IF lookahead # NEWLINE
       THEN Advance(FALSE)
       ELSE UNCHANGED <<pos, token_start, advances>>
  /\ pc' = "expect_lf"
  /\ UNCHANGED <<input, result_symbol, valid_symbols, ret, entry_pos,
                 entry_symbol, scanner, last_op, snap, restored>>

\* Variant of ExpectCr: the carriage return is advanced with skip = true.
ExpectCrAsTrivia ==
  /\ pc = "expect_cr"
  /\ Read(1)
  /\ IF lookahead = CR
       THEN Advance(TRUE)
       ELSE UNCHANGED <<pos, token_start, advances>>
  /\ pc' = "expect_lf"
  /\ UNCHANGED <<input, result_symbol, valid_symbols, ret, entry_pos,
                 entry_symbol, scanner, last_op, snap, restored>>

\* Variant of ExpectCr: a loop, every carriage return is advanced past.
ExpectCrLoop ==
  /\ pc = "expect_cr"
  /\ Read(1)
  /\ IF lookahead = CR
       THEN /\ Advance(FALSE)
            /\ pc' = "expect_cr"
       ELSE /\ pc' = "expect_lf"
            /\ UNCHANGED <<pos, token_start, advances>>
  /\ UNCHANGED <<input, result_symbol, valid_symbols, ret, entry_pos,
                 entry_symbol, scanner, last_op, snap, restored>>

\* Variant of ExpectCr: the test is made twice, two carriage returns pass.
ExpectCrTwice ==
  /\ pc = "expect_cr"
  /\ IF lookahead = CR
       THEN IF pos + 1 < Len(input) /\ input[pos + 2] = CR
              THEN /\ Read(2)
                   /\ pos' = pos + 2
                   /\ advances' = advances \o <<<<CR, FALSE>>, <<CR, FALSE>>>>
                   /\ UNCHANGED token_start
              ELSE /\ Read(2)
                   /\ Advance(FALSE)
       ELSE /\ Read(1)
            /\ UNCHANGED <<pos, token_start, advances>>
  /\ pc' = "expect_lf"
  /\ UNCHANGED <<input, result_symbol, valid_symbols, ret, entry_pos,
                 entry_symbol, scanner, last_op, snap, restored>>

\* Variant of ExpectCr: a newline is advanced past like a carriage return.
ExpectCrOrNewline ==
  /\ pc = "expect_cr"
  /\ Read(1)
  /\ IF lookahead \in {CR, NEWLINE}
       THEN Advance(FALSE)
       ELSE UNCHANGED <<pos, token_start, advances>>
  /\ pc' = "expect_lf"
  /\ UNCHANGED <<input, result_symbol, valid_symbols, ret, entry_pos,
                 entry_symbol, scanner, last_op, snap, restored>>

\* if (lexer->lookahead == '\r') { lexer->advance(lexer, false); }
ExpectCr ==
  /\ pc = "expect_cr"
  /\ Read(1)
  /\ IF lookahead = CR
       THEN Advance(FALSE)
       ELSE UNCHANGED <<pos, token_start, advances>>
  /\ pc' = "expect_lf"
  /\ UNCHANGED <<input, result_symbol, valid_symbols, ret, entry_pos,
                 entry_symbol, scanner, last_op, snap, restored>>

\* Variant of ExpectLf: result_symbol is set before the newline is tested.
ExpectLfAlwaysReports ==
  /\ pc = "expect_lf"
  /\ Read(1)
  /\ result_symbol' = LINE_CONTINUATION
  /\ IF lookahead = NEWLINE
       THEN /\ Advance(FALSE)
            /\ Return(TRUE)
       ELSE /\ Return(FALSE)
            /\ UNCHANGED <<pos, token_start, advances>>
  /\ UNCHANGED <<input, valid_symbols, entry_pos, entry_symbol, scanner,
                 last_op, snap, restored>>

\* Variant of ExpectLf: result_symbol is not set on success.
ExpectLfKeepsSymbol ==
  /\ pc = "expect_lf"
  /\ Read(1)
  /\ IF lookahead = NEWLINE
       THEN /\ Advance(FALSE)
            /\ Return(TRUE)
       ELSE /\ Return(FALSE)
            /\ UNCHANGED <<pos, token_start, advances>>
  /\ UNCHANGED <<input, result_symbol, valid_symbols, entry_pos,
                 entry_symbol, scanner, last_op, snap, restored>>

\* Variant of ExpectLf: the newline is advanced with skip = true.
ExpectLfSkipsNewline ==
  /\ pc = "expect_lf"
  /\ Read(1)
  /\ IF lookahead = NEWLINE
       THEN /\ Advance(TRUE)
            /\ result_symbol' = LINE_CONTINUATION
            /\ Return(TRUE)
       ELSE /\ Return(FALSE)
            /\ UNCHANGED <<pos, token_start, advances, result_symbol>>
  /\ UNCHANGED <<input, valid_symbols, entry_pos, entry_symbol, scanner,
                 last_op, snap, restored>>

\* Variant of ExpectLf: a failed match moves the cursor back to where the
\* call began.
ExpectLfRewinds ==
  /\ pc = "expect_lf"
  /\ Read(1)
  /\ IF lookahead = NEWLINE
       THEN /\ Advance(FALSE)
            /\ result_symbol' = LINE_CONTINUATION
            /\ Return(TRUE)
       ELSE /\ Return(FALSE)
            /\ pos' = entry_pos
            /\ UNCHANGED <<token_start, advances, result_symbol>>
  /\ UNCHANGED <<input, valid_symbols, entry_pos, entry_symbol, scanner,
                 last_op, snap, restored>>

\* if (lexer->lookahead == '\n') {
\*   lexer->advance(lexer, false);
\*   lexer->result_symbol = LINE_CONTINUATION;
\*   return true;
\* }  ... return false;
ExpectLf ==
  /\ pc = "expect_lf"
  /\ Read(1)
  /\ IF lookahead = NEWLINE
       THEN /\ Advance(FALSE)
            /\ result_symbol' = LINE_CONTINUATION
            /\ Return(TRUE)
       ELSE /\ Return(FALSE)
            /\ UNCHANGED <<pos, token_start, advances, result_symbol>>
  /\ UNCHANGED <<input, valid_symbols, entry_pos, entry_symbol, scanner,
                 last_op, snap, restored>>

\* One statement of a running scan call.
ScanStep == CheckValid \/ SkipWs \/ ExpectBackslash \/ ExpectCr \/ ExpectLf

\* What a finished call did, as the engine sees it.
Outcome == [at |-> entry_pos,
            valid |-> valid_symbols[LINE_CONTINUATION],
            ret |-> ret,
            advances |-> advances,
            exit |-> pos,
            symbol |-> IF ret THEN result_symbol ELSE -1]

\* The engine keeps the outcome of one finished call to compare later calls
\* on the same text position with it.
Remember ==
  /\ pc = "done"
  /\ snap = <<>>
  /\ snap' = <<Outcome>>
  /\ UNCHANGED <<input, lexer, call, scanner, last_op, restored>>

Next ==
  \/ Create
  \/ Destroy
  \/ Serialize
  \/ Deserialize
  \/ Call
  \/ ScanStep

Spec == Init /\ [][Next]_vars

\* One parse session in which the engine also keeps an earlier outcome.
NextHistory ==
  \/ Serialize
  \/ Deserialize
  \/ Call
  \/ ScanStep
  \/ Remember

\* The kept outcome multiplies the states: texts one code point shorter.
InitHistory == Init /\ Len(input) < MaxLen

HistorySpec == InitHistory /\ [][NextHistory]_vars

\* The scan calls of one parse session alone.
NextScan ==
  \/ Call
  \/ ScanStep

\* scan runs to completion inside one call of the engine's thread.
FairSpec == Init /\ [][NextScan]_vars /\ WF_vars(ScanStep)

\* ------------------------------------------------------------ properties

\* A scan call has returned.
Finished == pc = "done"

\* A scan call has been entered (running or returned).
Entered == pc \in {"check_valid", "skip_ws", "expect_backslash", "expect_cr",
                   "expect_lf", "done"}

\* LINE_CONTINUATION is in the valid-symbol set of the call.
Admissible == valid_symbols[LINE_CONTINUATION]

\* The i-th code point of the text at the call's entry position, i >= 1.
At(i) == IF entry_pos + i <= Len(input) THEN input[entry_pos + i] ELSE EOF_CHAR

\* Whitespace code points other than the newline.
NonNewlineWs == {9, 11, 12, 13, 32}

\* Length of the maximal run of non-newline whitespace at the entry position.
WsRun ==
  CHOOSE k \in 0..(Len(input) - entry_pos) :
    /\ \A i \in 1..k : At(i) \in NonNewlineWs
    /\ At(k + 1) \notin NonNewlineWs

\* The advances of the call made with skip = true / with skip = false.
SkipAdvances == SelectSeq(advances, LAMBDA a : a[2])
SignificantAdvances == SelectSeq(advances, LAMBDA a : ~a[2])

\* The text from the entry position: run of whitespace, then a continuation.
ContinuationAfter(k) ==
  /\ At(k + 1) = BACKSLASH
  /\ \/ At(k + 2) = NEWLINE
     \/ At(k + 2) = CR /\ At(k + 3) = NEWLINE

\* C1: when LINE_CONTINUATION is not in the valid-symbol set, scan returns
\* failure with no advance call of either kind, no read of the lookahead and
\* result_symbol left as it was, whatever the text and the cursor position.
InadmissibleDoesNothing ==
  (Entered /\ ~Admissible) =>
    /\ advances = <<>>
    /\ reads = 0
    /\ pos = entry_pos
    /\ token_start = entry_pos
    /\ result_symbol = entry_symbol
    /\ Finished => ret = FALSE

\* C1 witness: a refused call in the middle of the text, right at a
\* backslash newline that an admissible call would have taken.
InadmissibleAtContinuation ==
  /\ Finished /\ ~Admissible
  /\ entry_pos > 0
  /\ ContinuationAfter(0)
  /\ entry_symbol = OTHER_SYMBOL

\* C2: with the category admissible, scan succeeds if and only if the text
\* at the cursor, after its maximal run of non-newline whitespace, goes on
\* with backslash newline or backslash carriage-return newline.
SuccessIffContinuation ==
  (Finished /\ Admissible) => (ret <=> ContinuationAfter(WsRun))

\* C2 witness: success after leading whitespace on the carriage-return form.
SuccessAfterWsWithCr ==
  /\ Finished /\ Admissible /\ ret
  /\ WsRun >= 1
  /\ At(WsRun + 2) = CR

\* A failing call where the text ends right after the backslash.
FailureAtEndAfterBackslash ==
  /\ Finished /\ Admissible /\ ~ret
  /\ At(WsRun + 1) = BACKSLASH
  /\ entry_pos + WsRun + 1 = Len(input)

\* C3: on success result_symbol is LINE_CONTINUATION and the significant
\* advances are the backslash, at most one carriage return and the newline:
\* 2 code points for backslash newline, 3 for backslash CR newline, the
\* cursor standing right after the newline.
SuccessConsumesToken ==
  (Finished /\ ret) =>
    /\ result_symbol = LINE_CONTINUATION
    /\ SignificantAdvances \in
         { <<<<BACKSLASH, FALSE>>, <<NEWLINE, FALSE>>>>,
           <<<<BACKSLASH, FALSE>>, <<CR, FALSE>>, <<NEWLINE, FALSE>>>> }
    /\ pos = token_start + Len(SignificantAdvances)
    /\ \A i \in 1..Len(SignificantAdvances) :
         input[token_start + i] = SignificantAdvances[i][1]
    /\ input[pos] = NEWLINE
    /\ (input[token_start + 2] = NEWLINE) => (pos - token_start = 2)
    /\ (input[token_start + 2] = CR) => (pos - token_start = 3)

\* C3 witness: the three-code-point token has been taken.
SuccessThreeCodePoints ==
  /\ Finished /\ ret
  /\ entry_symbol = OTHER_SYMBOL
  /\ pos - token_start = 3

\* C4: k >= 0 non-newline whitespace code points and then backslash newline:
\* scan succeeds, the k code points are advanced with skip = true and the
\* token covers the backslash and the newline only.
LeadingWhitespaceIsTrivia ==
  (Finished /\ Admissible /\ At(WsRun + 1) = BACKSLASH
     /\ At(WsRun + 2) = NEWLINE) =>
    /\ ret
    /\ Len(advances) = WsRun + 2
    /\ \A i \in 1..WsRun : advances[i] = <<At(i), TRUE>>
    /\ advances[WsRun + 1] = <<BACKSLASH, FALSE>>
    /\ advances[WsRun + 2] = <<NEWLINE, FALSE>>
    /\ token_start = entry_pos + WsRun
    /\ pos = token_start + 2

\* C4 witness: two leading whitespace code points, one of them a space.
TwoLeadingWhitespace ==
  /\ Finished /\ Admissible /\ ret
  /\ WsRun = 2
  /\ At(1) = SPACE
  /\ At(4) = NEWLINE

\* C5: a backslash followed by neither newline nor carriage return (or by
\* the end of the text): scan fails, the cursor is one code point further
\* (the backslash, advanced with skip = false) and no token is reported.
LoneBackslashFails ==
  (Finished /\ Admissible /\ At(1) = BACKSLASH
     /\ At(2) \notin {NEWLINE, CR}) =>
    /\ ret = FALSE
    /\ pos = entry_pos + 1
    /\ advances = <<<<BACKSLASH, FALSE>>>>
    /\ result_symbol = entry_symbol

\* C5 witness: backslash then an ordinary character, no symbol set before.
BackslashThenLetter ==
  /\ Finished /\ Admissible
  /\ At(1) = BACKSLASH /\ At(2) = LETTER_X
  /\ entry_symbol = OTHER_SYMBOL

\* C6: a newline at the cursor with no backslash before it: scan fails with
\* no advance, the cursor still on that newline.
BareNewlineNotConsumed ==
  (Finished /\ Admissible /\ At(1) = NEWLINE) =>
    /\ ret = FALSE
    /\ advances = <<>>
    /\ pos = entry_pos
    /\ lookahead = NEWLINE

\* C6 witness: a call on a newline that is followed by backslash newline.
NewlineBeforeContinuation ==
  /\ Finished /\ Admissible
  /\ At(1) = NEWLINE /\ At(2) = BACKSLASH /\ At(3) = NEWLINE

\* How far a failing admissible call moves the cursor: over the leading
\* non-newline whitespace, the backslash if one follows, and the carriage
\* return if one follows the backslash.
FailedAdvance ==
  WsRun + (IF At(WsRun + 1) = BACKSLASH
             THEN 1 + (IF At(WsRun + 2) = CR THEN 1 ELSE 0)
             ELSE 0)

\* C7 (as claimed): on every failing call the cursor position on return
\* equals the cursor position on entry.
FailureLeavesCursorUntouched ==
  (Finished /\ ~ret) => pos = entry_pos

\* C7 (amended): a failing call reports no token and does not rewind: the
\* cursor on return stands after the leading non-newline whitespace and
\* after the backslash and carriage return it advanced past; it equals the
\* entry position when the category is not admissible or when the code point
\* at the cursor is neither non-newline whitespace nor a backslash.
FailureKeepsAdvances ==
  (Finished /\ ~ret) =>
    /\ result_symbol = entry_symbol
    /\ pos = entry_pos + (IF Admissible THEN FailedAdvance ELSE 0)
    /\ pos = entry_pos + Len(advances)
    /\ (pos = entry_pos) <=>
         (~Admissible \/ At(1) \notin (NonNewlineWs \cup {BACKSLASH}))

\* C7 witness: a failing call that skipped whitespace and advanced past a
\* backslash and a carriage return before giving up.
FailureAfterPartialToken ==
  /\ Finished /\ ~ret /\ Admissible
  /\ WsRun = 1
  /\ At(2) = BACKSLASH /\ At(3) = CR
  /\ pos = entry_pos + 3

\* C8: whatever the calls made, the persistent state stays empty: create
\* returns the null handle, serialize returns 0 and leaves the buffer as it
\* is, deserialize changes nothing.
PersistentStateEmpty ==
  [][ /\ payload' = NULL
      /\ buffer' = EngineBuffer
      /\ ser_len' \in {NO_LENGTH, 0}
      /\ (last_op' = "create") => (payload' = NULL)
      /\ (last_op' = "serialize") => (ser_len' = 0 /\ buffer' = buffer)
      /\ (last_op' = "deserialize") =>
           UNCHANGED <<input, lexer, call, scanner>> ]_vars

\* C8 witness: a session in which a scan succeeded, the state was saved and
\* restored, and the scanner was destroyed and created again.
SavedRestoredRecreated ==
  /\ pc = "idle"
  /\ ret
  /\ ser_len = 0
  /\ last_op = "deserialize"
  /\ payload = NULL

\* C9: serialize followed by deserialize leaves a scanner that behaves as
\* before: for the same text position and the same valid-symbol set a scan
\* call returns the same result, makes the same advances and sets the same
\* result_symbol as an earlier call, whatever was called in between.
SameOutcomeAfterRoundTrip ==
  (Finished /\ snap # <<>> /\ snap[1].at = entry_pos
     /\ snap[1].valid = Admissible) =>
    /\ Outcome = snap[1]
    /\ payload = NULL

\* C9 witness: a successful call repeated after serialize and deserialize,
\* entered with a different result_symbol than the call kept in snap left.
RepeatedAfterRoundTrip ==
  /\ Finished /\ snap # <<>> /\ restored
  /\ last_op = "scan"
  /\ snap[1].at = entry_pos /\ snap[1].valid = Admissible
  /\ ret /\ Len(advances) = 3
  /\ entry_symbol = OTHER_SYMBOL

\* C10: every scan call returns, also when the text ends during the
\* whitespace loop or right after the backslash or the carriage return.
ScanAlwaysReturns == (Entered /\ ~Finished) ~> Finished

\* C10 witness: a call that ran into the end of the text after skipping
\* whitespace and advancing past backslash and carriage return.
ReturnedAtEndOfText ==
  /\ Finished /\ Admissible /\ ~ret
  /\ WsRun >= 1
  /\ Len(SignificantAdvances) = 2
  /\ pos = Len(input)
  /\ lookahead = EOF_CHAR

\* The reads and advances of the longest call that meets no whitespace:
\* the four tests of the lookahead and the three significant advances.
Handful == 4 + 3

\* The reads of the lookahead an admissible call makes on the text at its
\* entry position: two per skipped whitespace code point, then the tests
\* that end the loop and follow it.
ExpectedReads ==
  2 * WsRun + (IF At(WsRun + 1) = NEWLINE THEN 3
               ELSE IF At(WsRun + 1) = BACKSLASH THEN 4
               ELSE 2)

\* C11 (as claimed): the lookahead inspections and advance calls of one
\* scan call are bounded by a small constant that does not depend on the
\* length of the leading whitespace run.
InspectionsBoundedByConstant ==
  Finished => reads + Len(advances) <= Handful

\* C11 (amended): the inspections and advances of one scan call are bounded
\* linearly in the length k of the leading non-newline whitespace run: a
\* call makes at most 2k + 4 reads of the lookahead and at most k + 3
\* advances, and none when the category is not admissible.
InspectionsLinearInWhitespace ==
  Finished =>
    /\ reads = (IF Admissible THEN ExpectedReads ELSE 0)
    /\ reads <= 2 * WsRun + 4
    /\ reads < ReadCap
    /\ Len(advances) <= WsRun + 3
    /\ Len(SkipAdvances) = (IF Admissible THEN WsRun ELSE 0)

\* C11 witness: a call whose whitespace run alone costs more than the
\* constant for a call without whitespace.
LongWhitespaceRun ==
  /\ Finished /\ Admissible
  /\ WsRun = 2
  /\ reads + Len(advances) > Handful

\* C12: backslash, carriage return, then anything but a newline: scan fails
\* after exactly two advances with skip = false, the cursor stays right after
\* the carriage return and no token is reported; a second carriage return is
\* not accepted.
BackslashCrWithoutNewlineFails ==
  (Finished /\ Admissible /\ At(1) = BACKSLASH /\ At(2) = CR
     /\ At(3) # NEWLINE) =>
    /\ ret = FALSE
    /\ advances = <<<<BACKSLASH, FALSE>>, <<CR, FALSE>>>>
    /\ pos = entry_pos + 2
    /\ token_start = entry_pos
    /\ result_symbol = entry_symbol

\* C12 witness: backslash, two carriage returns and a newline.
BackslashCrCrNewline ==
  /\ Finished /\ Admissible
  /\ At(1) = BACKSLASH /\ At(2) = CR /\ At(3) = CR /\ At(4) = NEWLINE
  /\ entry_symbol = OTHER_SYMBOL

\* C13: with the category admissible the k leading non-newline whitespace
\* code points are advanced with skip = true also when the match fails: when
\* they are followed by anything but a backslash, scan fails with exactly k
\* skip advances, no significant advance, and the cursor on what follows.
WhitespaceSkippedOnFailure ==
  (Finished /\ Admissible /\ At(WsRun + 1) # BACKSLASH) =>
    /\ ret = FALSE
    /\ Len(advances) = WsRun
    /\ \A i \in 1..WsRun : advances[i] = <<At(i), TRUE>>
    /\ SignificantAdvances = <<>>
    /\ pos = entry_pos + WsRun
    /\ token_start = pos
    /\ lookahead = At(WsRun + 1)

\* C13 witness: two whitespace code points and then an ordinary character.
TwoWhitespaceThenLetter ==
  /\ Finished /\ Admissible
  /\ WsRun = 2
  /\ At(3) = LETTER_X

\* The advances a call may have made so far: skipped non-newline whitespace
\* first, then a beginning of backslash, optional carriage return, newline.
TokenPrefixes ==
  { <<>>,
    <<<<BACKSLASH, FALSE>>>>,
    <<<<BACKSLASH, FALSE>>, <<NEWLINE, FALSE>>>>,
    <<<<BACKSLASH, FALSE>>, <<CR, FALSE>>>>,
    <<<<BACKSLASH, FALSE>>, <<CR, FALSE>>, <<NEWLINE, FALSE>>>> }

ForwardShape ==
  \E k \in 0..Len(advances) :
    /\ \A i \in 1..k : advances[i][2] /\ advances[i][1] \in NonNewlineWs
    /\ SubSeq(advances, k + 1, Len(advances)) \in TokenPrefixes

\* C14: within one call the advances are forward only: skip = true advances
\* first, then at most three skip = false advances in the order backslash,
\* optional carriage return, newline; the cursor never moves back and each
\* advance moves it by one.
AdvancesForwardOnly ==
  [][ (Entered /\ ~Finished) =>
        /\ pos' >= pos
        /\ pos' = entry_pos + Len(advances')
        /\ Len(advances') \in {Len(advances), Len(advances) + 1}
        /\ SubSeq(advances', 1, Len(advances)) = advances
        /\ ForwardShape' ]_vars

\* C14 witness: a call that skipped one code point and then advanced past
\* backslash, carriage return and newline.
SkipThenThreeSignificant ==
  /\ Finished /\ ret
  /\ Len(SkipAdvances) = 1
  /\ Len(SignificantAdvances) = 3

\* C15: no partial token: result_symbol keeps its entry value through every
\* call that fails, also after the backslash or the backslash and carriage
\* return were advanced past; it is written on the successful return only.
SymbolWrittenOnSuccessOnly ==
  (Entered /\ ~(Finished /\ ret)) => result_symbol = entry_symbol

\* C15 witness: a failed call that had advanced past backslash and carriage
\* return, entered with another symbol in result_symbol.
FailedAfterBackslashCrKeepsSymbol ==
  /\ Finished /\ ~ret
  /\ Len(SignificantAdvances) = 2
  /\ entry_symbol = OTHER_SYMBOL
  /\ result_symbol = OTHER_SYMBOL

\* C16: a newline is advanced past only as the last code point of an
\* accepted token: a failing call has consumed no newline, every code point
\* between its entry and exit positions is not a newline.
NewlineOnlyEndsToken ==
  /\ Entered =>
       \A i \in 1..Len(advances) :
         (advances[i][1] = NEWLINE) =>
           (i = Len(advances) /\ ~advances[i][2] /\ Finished /\ ret)
  /\ (Finished /\ ~ret) =>
       \A j \in (entry_pos + 1)..pos : input[j] # NEWLINE

\* C16 witness: a failing call that moved two code points and stopped on a
\* newline.
FailedCallStopsAtNewline ==
  /\ Finished /\ ~ret
  /\ pos >= entry_pos + 2
  /\ lookahead = NEWLINE

\* C17: scan never advances at or past the end of the text: every advance
\* is over the code point of the text at the cursor, the cursor stays within
\* the text, and a call entered at the end of the text fails with no advance.
NoAdvanceAtEndOfText ==
  /\ pos <= Len(input)
  /\ Entered =>
       /\ pos = entry_pos + Len(advances)
       /\ \A i \in 1..Len(advances) :
            /\ entry_pos + i <= Len(input)
            /\ advances[i][1] = input[entry_pos + i]
            /\ advances[i][1] # EOF_CHAR
  /\ (Finished /\ entry_pos = Len(input)) => (~ret /\ advances = <<>>)

\* C17 witness: an admissible call entered at the end of a text that ends
\* with a backslash.
CallAtEndOfText ==
  /\ Finished /\ Admissible
  /\ entry_pos = Len(input)
  /\ Len(input) >= 2
  /\ input[Len(input)] = BACKSLASH

\* C18: a carriage return before any backslash is leading whitespace: on
\* carriage return, newline scan fails, has advanced past the carriage
\* return with skip = true and leaves the cursor on the newline; on carriage
\* return, backslash, newline it succeeds with the carriage return outside
\* the token.
LeadingCrIsTrivia ==
  /\ (Finished /\ Admissible /\ At(1) = CR /\ At(2) = NEWLINE) =>
       /\ ret = FALSE
       /\ advances = <<<<CR, TRUE>>>>
       /\ pos = entry_pos + 1
       /\ lookahead = NEWLINE
  /\ (Finished /\ Admissible /\ At(1) = CR /\ At(2) = BACKSLASH
        /\ At(3) = NEWLINE) =>
       /\ ret
       /\ advances = <<<<CR, TRUE>>, <<BACKSLASH, FALSE>>, <<NEWLINE, FALSE>>>>
       /\ token_start = entry_pos + 1
       /\ pos = token_start + 2
       /\ result_symbol = LINE_CONTINUATION

\* C18 witness: the call on carriage return, backslash, newline, behind a
\* plain carriage return, newline line ending.
CrBackslashNewlineTaken ==
  /\ Finished /\ Admissible /\ ret
  /\ At(1) = CR /\ At(2) = BACKSLASH /\ At(3) = NEWLINE
  /\ entry_pos > 0
  /\ input[entry_pos] = NEWLINE

\* The call kept in snap was an admissible call on backslash, backslash,
\* newline.
SnapOnDoubleBackslash ==
  /\ snap # <<>>
  /\ snap[1].valid
  /\ snap[1].at + 3 <= Len(input)
  /\ input[snap[1].at + 1] = BACKSLASH
  /\ input[snap[1].at + 2] = BACKSLASH
  /\ input[snap[1].at + 3] = NEWLINE

\* C19: on backslash, backslash, newline the first call fails with the
\* cursor past the first backslash only, and an admissible call from that
\* position succeeds with a LINE_CONTINUATION token over the second
\* backslash and the newline.
SecondCallTakesContinuation ==
  SnapOnDoubleBackslash =>
    /\ snap[1].ret = FALSE
    /\ snap[1].advances = <<<<BACKSLASH, FALSE>>>>
    /\ snap[1].exit = snap[1].at + 1
    /\ (Finished /\ Admissible /\ entry_pos = snap[1].exit) =>
         /\ ret
         /\ advances = <<<<BACKSLASH, FALSE>>, <<NEWLINE, FALSE>>>>
         /\ result_symbol = LINE_CONTINUATION
         /\ token_start = entry_pos
         /\ pos = entry_pos + 2

\* C19 witness: the second call has returned from where the first stopped.
SecondCallAfterFailedFirst ==
  /\ SnapOnDoubleBackslash
  /\ Finished /\ Admissible
  /\ entry_pos = snap[1].exit
  /\ entry_pos = snap[1].at + 1
  /\ entry_symbol = OTHER_SYMBOL
  /\ ret

====
